---- MODULE Spec2Model ----
(***************************************************************************)
(* The coordinator of the distributed scraper (src/backend/coordinator.py) *)
(* as a state machine.                                                     *)
(*                                                                         *)
(* The coordinator is one asyncio event loop.  A coroutine runs without    *)
(* interruption until it awaits I/O, so every handler is cut at the awaits *)
(* that suspend it: db.get and db.commit.  broadcast_to_clients does not   *)
(* suspend while no dashboard is connected (coordinator.py:427), which is  *)
(* the case modelled here: "events" records what was handed to it.  One    *)
(* action below is one uninterrupted piece of a handler: it starts with    *)
(* the completion of the awaited call and runs the code up to the next     *)
(* await.  A frame of the bag "tasks" is one suspended coroutine: its      *)
(* position (pc) and its local variables.                                  *)
(*                                                                         *)
(* db.get(Worker, id) is only ever tested for None, and db.get(ScrapeJob)  *)
(* in handle_worker_job_failure likewise; rows are never deleted.  Such a  *)
(* get is taken together with the piece of code that issues it (the frame  *)
(* keeps the answer in "found").  A session writes, at commit, the         *)
(* attributes the handler assigned; the other attributes of the row stay   *)
(* as the Store has them.                                                  *)
(*                                                                         *)
(* Time is counted in units of HeartbeatTimeout seconds; last_heartbeat    *)
(* holds the age of the last heartbeat in these units, so that             *)
(* current_time - last_heartbeat_time > timedelta(seconds=60) reads        *)
(* last_heartbeat * HeartbeatTimeout > HeartbeatTimeout.                   *)
(***************************************************************************)
EXTENDS Integers, Sequences, FiniteSets, Bags, TLC

\* ------------------------------------------------------------- bounds
MaxWorkers == 2     \* worker ids that register_worker hands out
MaxJobs == 2        \* jobs that create_job creates
MaxVideos == 1      \* largest processed_videos a progress report carries
MaxRequests == 1    \* API requests in flight at the same time
MaxCalls == 2       \* heartbeat, unregister and progress requests received
MaxAge == 2         \* ages of a heartbeat that are told apart
MaxSize == 5        \* workers, jobs and requests of one behaviour together
MaxFound == 2       \* video containers auto_scroll_and_load_videos finds
MaxAssigns == 2     \* direct calls of assign_job_to_worker in flight together
MaxObservers == 2   \* dashboard connections opened in a behaviour
MaxLen == 4         \* pieces of a submitted URL

\* --------------------------------------------------- program constants
HeartbeatTimeout == 60
None == 0

JobIds == 1..MaxJobs
WorkerIds == 1..MaxWorkers

\* JobStatus, WorkerStatus (models.py)
PENDING == "pending"
ASSIGNED == "assigned"
RUNNING == "running"
COMPLETED == "completed"
FAILED == "failed"
CANCELLED == "cancelled"
JobStatus == {PENDING, ASSIGNED, RUNNING, COMPLETED, FAILED, CANCELLED}

IDLE == "idle"
BUSY == "busy"
OFFLINE == "offline"
WorkerStatus == {"connecting", IDLE, BUSY, OFFLINE, "error"}

\* WSMessageType (models.py)
WORKER_CONNECTED == "worker_connected"
WORKER_DISCONNECTED == "worker_disconnected"
WORKER_STATUS_UPDATE == "worker_status_update"
JOB_CREATED == "job_created"
JOB_ASSIGNED == "job_assigned"
JOB_PROGRESS == "job_progress"
JOB_FAILED == "job_failed"

\* The statuses a progress report and a heartbeat are drawn from.  The API
\* accepts every value of its schema; these are the ones worker.py sends.
ReportStatuses == {RUNNING, COMPLETED, FAILED}
HeartbeatStatuses == {IDLE, BUSY}

VARIABLES
    active_workers,   \* Registry: worker id -> its dict          (coordinator.py:40)
    job_assignments,  \* job id -> worker id                      (coordinator.py:42)
    scrape_jobs,      \* Store: table scrape_jobs, id -> row      (models.py:27)
    workers,          \* Store: table workers, id -> row          (models.py:63)
    events,           \* the messages handed to broadcast_to_clients
    tasks,            \* bag of suspended coroutines
    next_worker_id,   \* the next fresh worker id (uuid4)
    calls,            \* heartbeat, unregister and progress requests so far
    stopped,          \* worker processes that have died
    websocket_connections,  \* the observers broadcast_to_clients sends to (coordinator.py:41)
    received,         \* observer -> the messages its dashboard got, in order
    submitted         \* the POST /api/jobs under study: its URL and its answer

vars == <<active_workers, job_assignments, scrape_jobs, workers, events, tasks,
          next_worker_id, calls, stopped, websocket_connections, received,
          submitted>>

\* The side of the dashboards and of the client that submits jobs.
clients == <<websocket_connections, received, submitted>>

\* What no handler of the coordinator writes.
env == <<next_worker_id, calls, stopped, clients>>

\* ------------------------------------------------------------- helpers
Remove(f, k) == [x \in (DOMAIN f) \ {k} |-> f[x]]

Put(f, k, v) == [x \in (DOMAIN f) \cup {k} |-> IF x = k THEN v ELSE f[x]]

\* A message handed to broadcast_to_clients: its type and the job id, worker
\* id, status and processed_videos of its data (None, "" or 0 when absent).
Event(type, job, worker, status, n) ==
    [type |-> type, job |-> job, worker |-> worker, status |-> status, n |-> n]

\* A coroutine frame.  kind: the entry point that started it; pc: the await
\* it is suspended at; w, j, st, n: its worker id, job id, status and count
\* locals; found: whether the session's db.get returned a row;
\* jq, wq: the lists a loop still has to walk.
Frame(kind, pc, w, j, st, n, found, jq, wq) ==
    [kind |-> kind, pc |-> pc, w |-> w, j |-> j, st |-> st, n |-> n,
     found |-> found, jq |-> jq, wq |-> wq]

Request(kind, pc, w, j, st, n, found) ==
    Frame(kind, pc, w, j, st, n, found, <<>>, <<>>)

MonitorSleeping == Frame("monitor", "sleep", None, None, "", 0, FALSE, <<>>, <<>>)

SchedulerSleeping == Frame("scheduler", "sleep", None, None, "", 0, FALSE, <<>>, <<>>)

Running == BagToSet(tasks)

Replace(f, g) == (tasks (-) SetToBag({f})) (+) SetToBag({g})

Finish(f) == tasks (-) SetToBag({f})

Start(g) == tasks (+) SetToBag({g})

\* Requests in flight: every frame but the two loops.
InFlight == BagCardinality(tasks) - BagCardinality(SetToBag({MonitorSleeping, SchedulerSleeping}))

\* The ids of a table or dict in insertion order: ids are handed out in
\* increasing order, so insertion order is id order.
RECURSIVE Ordered(_)
Ordered(S) ==
    IF S = {} THEN <<>>
    ELSE LET m == CHOOSE x \in S : \A y \in S : x <= y
         IN <<m>> \o Ordered(S \ {m})

\* ---------------------------------------------------------------- rows
RegistryEntryOffline ==
    [status |-> OFFLINE, current_job_id |-> None, last_heartbeat |-> 0,
     total_jobs_completed |-> 0, total_videos_scraped |-> 0]

\* The dict register_worker puts into active_workers.
RegistryEntry ==
    [status |-> IDLE, current_job_id |-> None, last_heartbeat |-> 0,
     total_jobs_completed |-> 0, total_videos_scraped |-> 0]

\* The Worker row register_worker adds (the counters take their defaults).
WorkerRow ==
    [status |-> IDLE, current_job_id |-> None,
     total_jobs_completed |-> 0, total_videos_scraped |-> 0]

\* The ScrapeJob row create_job adds.
JobRow ==
    [status |-> PENDING, assigned_worker_id |-> None, started_at |-> FALSE,
     completed_at |-> FALSE, processed_videos |-> 0, error_message |-> "none"]

\* Worker processes that can send requests: a worker learns its id from the
\* answer to its registration, which follows the commit of its row.
Senders == {w \in DOMAIN workers : w \notin stopped}

\* What a behaviour has created so far: workers, jobs and requests.
Size == (next_worker_id - 1) + Cardinality(DOMAIN scrape_jobs) + calls

\* No POST /api/jobs under study yet.
NoRequest == [url |-> <<>>, answer |-> "none"]

Init ==
    /\ active_workers = [w \in {} |-> RegistryEntry]
    /\ job_assignments = [j \in {} |-> None]
    /\ scrape_jobs = [j \in {} |-> JobRow]
    /\ workers = [w \in {} |-> WorkerRow]
    /\ events = {}
    /\ tasks = SetToBag({MonitorSleeping, SchedulerSleeping})
    /\ next_worker_id = 1
    /\ calls = 0
    /\ stopped = {}
    /\ websocket_connections = {}
    /\ received = [o \in {} |-> <<>>]
    /\ submitted = NoRequest

\* ---------------------------------------------------------- create_job
\* POST /api/jobs with a URL that validate_tiktok_url accepts.  The handler
\* uses the synchronous session: it does not await before the broadcast.
AddJob ==
    /\ Cardinality(DOMAIN scrape_jobs) < MaxJobs
    /\ Size < MaxSize
    /\ LET id == Cardinality(DOMAIN scrape_jobs) + 1
       IN /\ scrape_jobs' = Put(scrape_jobs, id, JobRow)
          /\ events' = events \cup {Event(JOB_CREATED, id, None, PENDING, 0)}

CreateJob ==
    /\ AddJob
    /\ UNCHANGED <<active_workers, job_assignments, workers, tasks, env>>

\* ------------------------------------------------------ register_worker
\* Up to the await of db.commit().
RegisterCall ==
    /\ next_worker_id <= MaxWorkers
    /\ Size < MaxSize
    /\ InFlight < MaxRequests
    /\ active_workers' = Put(active_workers, next_worker_id, RegistryEntry)
    /\ tasks' = Start(Request("register", "reg_commit", next_worker_id, None, "", 0, FALSE))
    /\ next_worker_id' = next_worker_id + 1
    /\ UNCHANGED <<job_assignments, scrape_jobs, workers, events, calls, stopped, clients>>

\* db.commit() returned; the broadcast reads active_workers[worker_id] and
\* raises KeyError when the worker was removed meanwhile.
RegisterCommit(f) ==
    /\ f.pc = "reg_commit"
    /\ workers' = Put(workers, f.w, WorkerRow)
    /\ events' = IF f.w \in DOMAIN active_workers
                 THEN events \cup {Event(WORKER_CONNECTED, None, f.w, IDLE, 0)}
                 ELSE events
    /\ tasks' = Finish(f)
    /\ UNCHANGED <<active_workers, job_assignments, scrape_jobs, env>>

\* ---------------------------------------------- update_worker_heartbeat
\* Up to the await of db.commit().  A worker learns its id from the answer
\* to its registration, so its row is in the Store.
HeartbeatCall(w, st, cj) ==
    /\ w \in Senders
    /\ cj \in {None} \cup DOMAIN scrape_jobs
    /\ InFlight < MaxRequests
    /\ calls < MaxCalls
    /\ Size < MaxSize
    /\ calls' = calls + 1
    /\ IF w \notin DOMAIN active_workers
       THEN UNCHANGED <<active_workers, tasks>>
       ELSE /\ active_workers' =
                   [active_workers EXCEPT ![w].status = st,
                                          ![w].last_heartbeat = 0,
                                          ![w].current_job_id = cj]
            /\ tasks' = Start(Request("heartbeat", "hb_commit", w, cj, st, 0, TRUE))
    /\ UNCHANGED <<job_assignments, scrape_jobs, workers, events,
                   next_worker_id, stopped, clients>>

HeartbeatCommit(f) ==
    /\ f.pc = "hb_commit"
    /\ workers' = [workers EXCEPT ![f.w].status = f.st,
                                  ![f.w].current_job_id = f.j]
    /\ events' = events \cup {Event(WORKER_STATUS_UPDATE, None, f.w, f.st, 0)}
    /\ tasks' = Finish(f)
    /\ UNCHANGED <<active_workers, job_assignments, scrape_jobs, env>>

\* What the heartbeat endpoint answers for worker w: update_worker_heartbeat
\* returns None whether or not w is in the Registry, and the endpoint
\* answers the same body with status 200 after it.
HeartbeatAnswer(w) == "updated"

\* ------------------- unregister_worker and the loop that calls it
\* The reason the caller passes: the monitor's or the endpoint's.
Reason(f) == IF f.kind = "monitor" THEN "Worker disconnected: Heartbeat timeout"
             ELSE "Worker disconnected: Manual unregister"

Ended == Request("", "done", None, None, "", 0, FALSE)

RECURSIVE Unregister(_, _, _, _)
RECURSIVE UnregisterReturn(_, _, _)

\* An unregister_worker that does not return for a worker the Registry
\* no longer holds.
UnregisterAgain(f, q, reg, evs) ==
    LET w == Head(q)
    IN IF w \in DOMAIN reg /\ reg[w].current_job_id # None
       THEN [frame |-> [f EXCEPT !.pc = "fail_commit", !.w = w,
                                 !.j = reg[w].current_job_id, !.wq = q],
             active_workers |-> reg, events |-> evs]
       ELSE IF w \in DOMAIN workers
       THEN [frame |-> [f EXCEPT !.pc = "unreg_commit", !.w = w, !.j = None, !.wq = q],
             active_workers |-> Remove(reg, w), events |-> evs]
       ELSE UnregisterReturn(f, q,
               [active_workers |-> Remove(reg, w),
                events |-> evs \cup {Event(WORKER_DISCONNECTED, None, w, OFFLINE, 0)}])

\* unregister_worker(Head(q)) called by frame f, with the Registry reg and
\* the events evs, up to the await that suspends it: the frame it leaves
\* (Ended when the coroutine is over), the Registry and the events.
\*   - a worker that is not in the Registry: return at once;
\*   - a worker with a current job: suspended in handle_worker_job_failure;
\*   - otherwise the worker is popped and, if it has a row, the session
\*     awaits the commit of OFFLINE; without a row only the broadcast is left.
Unregister(f, q, reg, evs) ==
    LET w == Head(q)
    IN IF w \notin DOMAIN reg THEN UnregisterReturn(f, q, [active_workers |-> reg, events |-> evs])
       ELSE IF reg[w].current_job_id # None
       THEN [frame |-> [f EXCEPT !.pc = "fail_commit", !.w = w,
                                 !.j = reg[w].current_job_id, !.wq = q],
             active_workers |-> reg, events |-> evs]
       ELSE IF w \in DOMAIN workers
       THEN [frame |-> [f EXCEPT !.pc = "unreg_commit", !.w = w, !.j = None, !.wq = q],
             active_workers |-> Remove(reg, w), events |-> evs]
       ELSE UnregisterReturn(f, q,
               [active_workers |-> Remove(reg, w),
                events |-> evs \cup {Event(WORKER_DISCONNECTED, None, w, OFFLINE, 0)}])

\* unregister_worker(Head(q)) returned to frame f: the endpoint's request
\* is over; worker_monitor_loop goes on with the rest of stale_workers,
\* then refreshes last_heartbeat of the Worker rows (not held here) and sleeps.
UnregisterReturn(f, q, s) ==
    IF f.kind # "monitor" THEN [frame |-> Ended] @@ s
    ELSE IF Tail(q) = <<>> THEN [frame |-> MonitorSleeping] @@ s
    ELSE Unregister(f, Tail(q), s.active_workers, s.events)

After(f, r) ==
    /\ tasks' = IF r.frame = Ended THEN Finish(f) ELSE Replace(f, r.frame)
    /\ active_workers' = r.active_workers
    /\ events' = r.events

\* POST /api/workers/{id}/unregister.
UnregisterCall(w) ==
    /\ w \in Senders
    /\ InFlight < MaxRequests
    /\ calls < MaxCalls
    /\ Size < MaxSize
    /\ calls' = calls + 1
    /\ LET f == Request("unregister", "", w, None, "", 0, FALSE)
           r == Unregister(f, <<w>>, active_workers, events)
       IN /\ tasks' = IF r.frame = Ended THEN tasks ELSE Start(r.frame)
          /\ active_workers' = r.active_workers
          /\ events' = r.events
    /\ UNCHANGED <<job_assignments, scrape_jobs, workers,
                   next_worker_id, stopped, clients>>

\* handle_worker_job_failure: the session's get and commit returned; back
\* in unregister_worker the worker is popped.
FailureCommit(f) ==
    /\ f.pc = "fail_commit"
    /\ scrape_jobs' = IF f.j \in DOMAIN scrape_jobs
                      THEN [scrape_jobs EXCEPT ![f.j].status = FAILED,
                                               ![f.j].error_message = Reason(f),
                                               ![f.j].completed_at = TRUE]
                      ELSE scrape_jobs
    /\ job_assignments' = Remove(job_assignments, f.j)
    /\ LET evs == events \cup {Event(JOB_FAILED, f.j, None, FAILED, 0)}
           reg == Remove(active_workers, f.w)
       IN IF f.w \in DOMAIN workers
          THEN After(f, [frame |-> [f EXCEPT !.pc = "unreg_commit"],
                         active_workers |-> reg, events |-> evs])
          ELSE After(f, UnregisterReturn(f, f.wq,
                         [active_workers |-> reg,
                          events |-> evs \cup {Event(WORKER_DISCONNECTED, None, f.w, OFFLINE, 0)}]))
    /\ UNCHANGED <<workers, env>>

\* unregister_worker: db.commit() of the OFFLINE status returned.
UnregisterCommit(f) ==
    /\ f.pc = "unreg_commit"
    /\ workers' = [workers EXCEPT ![f.w].status = OFFLINE]
    /\ After(f, UnregisterReturn(f, f.wq,
                  [active_workers |-> active_workers,
                   events |-> events \cup {Event(WORKER_DISCONNECTED, None, f.w, OFFLINE, 0)}]))
    /\ UNCHANGED <<job_assignments, scrape_jobs, env>>

\* An exception leaves unregister_worker: the monitor's except clause logs
\* and sleeps, the endpoint's request ends with an error.
UnregisterRaise(f) ==
    IF f.kind = "monitor" THEN Replace(f, MonitorSleeping) ELSE Finish(f)

\* handle_worker_job_failure: db.commit() raised.  The job is not failed,
\* the worker is not popped and nothing is published.
FailureCommitFails(f) ==
    /\ f.pc = "fail_commit"
    /\ f.j \in DOMAIN scrape_jobs
    /\ tasks' = UnregisterRaise(f)
    /\ UNCHANGED <<active_workers, job_assignments, scrape_jobs, workers, events, env>>

\* unregister_worker: db.commit() of the OFFLINE status raised.  The worker
\* is popped already; its row is not written and nothing is published.
UnregisterCommitFails(f) ==
    /\ f.pc = "unreg_commit"
    /\ tasks' = UnregisterRaise(f)
    /\ UNCHANGED <<active_workers, job_assignments, scrape_jobs, workers, events, env>>

\* -------------------------------------------------- worker_monitor_loop
\* A monitor that also takes the workers whose heartbeat is exactly
\* HeartbeatTimeout seconds old.
StaleAtTimeout ==
    {w \in DOMAIN active_workers :
        active_workers[w].last_heartbeat * HeartbeatTimeout >= HeartbeatTimeout}

StaleWorkers ==
    {w \in DOMAIN active_workers :
        active_workers[w].last_heartbeat * HeartbeatTimeout > HeartbeatTimeout}

\* asyncio.sleep(30) returned: one pass of the loop up to its first await.
MonitorTick(f) ==
    /\ f.kind = "monitor"
    /\ f.pc = "sleep"
    /\ StaleWorkers # {}
    /\ After(f, Unregister(f, Ordered(StaleWorkers), active_workers, events))
    /\ UNCHANGED <<job_assignments, scrape_jobs, workers, env>>

\* -------------------------------------------------- job_assignment_loop
PendingJobs == {j \in DOMAIN scrape_jobs : scrape_jobs[j].status = PENDING}

IdleWorkers == {w \in DOMAIN active_workers : active_workers[w].status = IDLE}

\* A loop that goes back to sleep without calling assign_job_to_worker.
RECURSIVE SchedulerSkips(_, _, _)
SchedulerSkips(f, jq, wq) ==
    IF jq = <<>> \/ wq = <<>> THEN SchedulerSleeping
    ELSE SchedulerSkips(f, Tail(jq), Tail(wq))

\* The for loop over pending_jobs with the lists jq and wq still to pair:
\* the frame at the next await.  assign_job_to_worker returns False at once
\* for a worker that has left the Registry; otherwise it awaits
\* db.get(ScrapeJob).  With a list exhausted the loop sleeps.
RECURSIVE SchedulerWalk(_, _, _)
SchedulerWalk(f, jq, wq) ==
    IF jq = <<>> \/ wq = <<>> THEN SchedulerSleeping
    ELSE IF Head(wq) \notin DOMAIN active_workers
         THEN SchedulerWalk(f, Tail(jq), Tail(wq))
         ELSE [f EXCEPT !.pc = "asg_get", !.j = Head(jq), !.w = Head(wq),
                        !.found = FALSE, !.jq = Tail(jq), !.wq = Tail(wq)]

\* asyncio.sleep(5) and the query for the pending jobs returned.  A tick
\* that finds no pair changes nothing.
SchedulerTick(f) ==
    /\ f.kind = "scheduler"
    /\ f.pc = "sleep"
    /\ PendingJobs # {} /\ IdleWorkers # {}
    /\ tasks' = Replace(f, SchedulerWalk(f, Ordered(PendingJobs), Ordered(IdleWorkers)))
    /\ UNCHANGED <<active_workers, job_assignments, scrape_jobs, workers, events, env>>

\* ------------------------------------------------- assign_job_to_worker
\* The call returned (True or False) without an exception.
AssignReturn(f) ==
    IF f.kind = "scheduler"
    THEN Replace(f, SchedulerWalk(f, f.jq, f.wq))
    ELSE Finish(f)

\* The call raised: the loop's except clause logs and sleeps.
AssignRaise(f) ==
    IF f.kind = "scheduler"
    THEN Replace(f, SchedulerSleeping)
    ELSE Finish(f)

\* assign_job_to_worker(j, w) called by a caller of its own, next to the
\* loop: up to the await of db.get(ScrapeJob).
AssignCall(j, w) ==
    /\ calls < MaxCalls
    /\ InFlight < MaxAssigns
    /\ calls' = calls + 1
    /\ tasks' = IF w \in DOMAIN active_workers
                THEN Start(Request("assign", "asg_get", w, j, "", 0, FALSE))
                ELSE tasks
    /\ UNCHANGED <<active_workers, job_assignments, scrape_jobs, workers, events,
                   next_worker_id, stopped, clients>>

\* A handler that goes on without looking at the job's status.
AssignGetUnchecked(f) ==
    /\ f.pc = "asg_get"
    /\ IF f.w \notin DOMAIN active_workers
       THEN /\ tasks' = AssignRaise(f)
            /\ UNCHANGED active_workers
       ELSE /\ active_workers' = [active_workers EXCEPT ![f.w].status = BUSY,
                                                        ![f.w].current_job_id = f.j]
            /\ tasks' = AssignReturn(f)
    /\ UNCHANGED <<job_assignments, scrape_jobs, workers, events, env>>

\* db.get(ScrapeJob) returned: the check of the status, the update of the
\* Registry (KeyError when the worker has left it) and db.get(Worker).
AssignGet(f) ==
    /\ f.pc = "asg_get"
    /\ IF f.j \notin DOMAIN scrape_jobs \/ scrape_jobs[f.j].status # PENDING
       THEN /\ tasks' = AssignReturn(f)
            /\ UNCHANGED active_workers
       ELSE IF f.w \notin DOMAIN active_workers
       THEN /\ tasks' = AssignRaise(f)
            /\ UNCHANGED active_workers
       ELSE /\ active_workers' = [active_workers EXCEPT ![f.w].status = BUSY,
                                                        ![f.w].current_job_id = f.j]
            /\ tasks' = Replace(f, [f EXCEPT !.pc = "asg_commit",
                                             !.found = (f.w \in DOMAIN workers)])
    /\ UNCHANGED <<job_assignments, scrape_jobs, workers, events, env>>

\* db.commit() returned: the job_assignments entry, the broadcast, return True.
AssignCommit(f) ==
    /\ f.pc = "asg_commit"
    /\ scrape_jobs' = [scrape_jobs EXCEPT ![f.j].status = ASSIGNED,
                                          ![f.j].assigned_worker_id = f.w,
                                          ![f.j].started_at = TRUE]
    /\ workers' = IF f.found
                  THEN [workers EXCEPT ![f.w].status = BUSY,
                                       ![f.w].current_job_id = f.j]
                  ELSE workers
    /\ job_assignments' = Put(job_assignments, f.j, f.w)
    /\ events' = events \cup {Event(JOB_ASSIGNED, f.j, f.w, ASSIGNED, 0)}
    /\ tasks' = AssignReturn(f)
    /\ UNCHANGED <<active_workers, env>>

\* A failed commit that has written the job's row all the same.
AssignCommitHalf(f) ==
    /\ f.pc = "asg_commit"
    /\ scrape_jobs' = [scrape_jobs EXCEPT ![f.j].status = ASSIGNED,
                                          ![f.j].assigned_worker_id = f.w,
                                          ![f.j].started_at = TRUE]
    /\ tasks' = AssignRaise(f)
    /\ UNCHANGED <<active_workers, job_assignments, workers, events, env>>

\* db.commit() raised: the session drops the update of the job and of the
\* Worker row, the exception leaves the call before job_assignments and the
\* broadcast, and the Registry keeps what AssignGet wrote.
AssignCommitFails(f) ==
    /\ f.pc = "asg_commit"
    /\ tasks' = AssignRaise(f)
    /\ UNCHANGED <<active_workers, job_assignments, scrape_jobs, workers, events, env>>

\* --------------------------------------------------- handle_job_progress
\* A handler that frees the worker without counting the job.
FreedUncounted(w, st, n) ==
    IF w \notin DOMAIN active_workers THEN active_workers
    ELSE [active_workers EXCEPT ![w].status = IDLE, ![w].current_job_id = None]

\* The Registry after a report of worker w with a terminal status.
Freed(w, st, n) ==
    IF w \notin DOMAIN active_workers THEN active_workers
    ELSE IF st = COMPLETED
    THEN [active_workers EXCEPT
            ![w].status = IDLE,
            ![w].current_job_id = None,
            ![w].total_jobs_completed = @ + 1,
            ![w].total_videos_scraped = @ + n]
    ELSE [active_workers EXCEPT ![w].status = IDLE, ![w].current_job_id = None]

\* A handler that frees the worker on a report of any status.
ReportFreeing(j, w, st, n, ts) ==
    /\ IF j \notin DOMAIN scrape_jobs
       THEN /\ events' = events \cup {Event(JOB_PROGRESS, j, w, st, n)}
            /\ tasks' = ts
            /\ UNCHANGED <<active_workers, job_assignments>>
       ELSE /\ tasks' = ts (+) SetToBag({Request("progress", "prog_commit", w, j, st, n, TRUE)})
            /\ UNCHANGED events
            /\ active_workers' = Freed(w, st, n)
            /\ job_assignments' = Remove(job_assignments, j)
    /\ UNCHANGED <<scrape_jobs, workers>>

\* handle_job_progress up to the await of db.commit(): db.get returned the
\* job, the Registry and job_assignments are updated.  For a job that does
\* not exist only the broadcast is left.  ts: the frames next to the
\* handler's own.
Report(j, w, st, n, ts) ==
    /\ IF j \notin DOMAIN scrape_jobs
       THEN /\ events' = events \cup {Event(JOB_PROGRESS, j, w, st, n)}
            /\ tasks' = ts
            /\ UNCHANGED <<active_workers, job_assignments>>
       ELSE /\ tasks' = ts (+) SetToBag({Request("progress", "prog_commit", w, j, st, n, TRUE)})
            /\ UNCHANGED events
            /\ IF st \in {COMPLETED, FAILED}
               THEN /\ active_workers' = Freed(w, st, n)
                    /\ job_assignments' = Remove(job_assignments, j)
               ELSE UNCHANGED <<active_workers, job_assignments>>
    /\ UNCHANGED <<scrape_jobs, workers>>

\* POST /api/jobs/{job_id}/progress from a client that names worker w.
ProgressCall(j, w, st, n) ==
    /\ w \in Senders
    /\ InFlight < MaxRequests
    /\ calls < MaxCalls
    /\ Size < MaxSize
    /\ calls' = calls + 1
    /\ Report(j, w, st, n, tasks)
    /\ UNCHANGED <<next_worker_id, stopped, clients>>

\* db.commit() returned.
ProgressCommit(f) ==
    /\ f.pc = "prog_commit"
    /\ scrape_jobs' =
         [scrape_jobs EXCEPT
            ![f.j].processed_videos = f.n,
            ![f.j].status = f.st,
            ![f.j].completed_at = IF f.st \in {COMPLETED, FAILED} THEN TRUE ELSE @,
            ![f.j].error_message = IF f.st = FAILED THEN "reported" ELSE @]
    /\ events' = events \cup {Event(JOB_PROGRESS, f.j, f.w, f.st, f.n)}
    /\ tasks' = Finish(f)
    /\ UNCHANGED <<active_workers, job_assignments, workers, env>>

\* ----------------------------------------------------- the worker process
\* A frame of kind "job" is process_job of worker w with job j: n is the
\* index i of scrape_profile's loop, jq the video containers it still has to
\* walk and wq its video_data.

\* The POST of handle_progress_update was answered: the handler returned.
Answered(f) == ~\E g \in Running : g.kind = "progress" /\ g.w = f.w

\* _update_progress through handle_progress_update: one POST of a report;
\* the worker goes on as frame g once it is answered.
UpdateProgress(f, st, n, g) ==
    /\ Report(f.j, f.w, st, n, Replace(f, g))
    /\ UNCHANGED env

\* The worker goes on as frame g without a report.
Goes(f, g) ==
    /\ tasks' = Replace(f, g)
    /\ UNCHANGED <<active_workers, job_assignments, scrape_jobs, workers, events, env>>

\* A loop that counts from zero again at every video.
ProcessingFromZero(f) == 0

\* The value of the report "Processing video i+1": the loop index.
Processing(f) == f.n

\* The value of the report "Scraped video i+1".
Scraped(f) == f.n + 1

\* worker_loop hands an assignment to process_job.  The worker has no job
\* in hand and the Store says that job j is ASSIGNED to it.
ProcessJob(w, j) ==
    /\ w \in Senders
    /\ j \in DOMAIN scrape_jobs
    /\ scrape_jobs[j].status = ASSIGNED
    /\ scrape_jobs[j].assigned_worker_id = w
    /\ ~\E g \in Running : g.kind = "job" /\ g.w = w
    /\ tasks' = Start(Frame("job", "init", w, j, "", 0, FALSE, <<>>, <<>>))
    /\ UNCHANGED <<active_workers, job_assignments, scrape_jobs, workers, events, env>>

\* scrape_profile: the report "Initializing...".
ScrapeInit(f) ==
    /\ f.kind = "job" /\ f.pc = "init"
    /\ UpdateProgress(f, RUNNING, 0, [f EXCEPT !.pc = "driver"])

\* init_driver and the report "Loading profile...", or init_driver fails
\* and the function raises.
ScrapeLoad(f, ok) ==
    /\ f.kind = "job" /\ f.pc = "driver"
    /\ Answered(f)
    /\ IF ok
       THEN UpdateProgress(f, RUNNING, 0, [f EXCEPT !.pc = "get"])
       ELSE Goes(f, [f EXCEPT !.pc = "except"])

\* driver.get and the report "Loading all videos...".
ScrapeScroll(f) ==
    /\ f.kind = "job" /\ f.pc = "get"
    /\ Answered(f)
    /\ UpdateProgress(f, RUNNING, 0, [f EXCEPT !.pc = "scroll"])

\* auto_scroll_and_load_videos returned total containers: none, and the
\* function returns its empty video_data, or the report "Starting to scrape".
ScrapeFound(f, total) ==
    /\ f.kind = "job" /\ f.pc = "scroll"
    /\ Answered(f)
    /\ IF total = 0
       THEN Goes(f, [f EXCEPT !.pc = "save"])
       ELSE UpdateProgress(f, RUNNING, 0,
                           [f EXCEPT !.pc = "video", !.jq = [i \in 1..total |-> i]])

\* The head of the loop: the report "Processing video i+1", or after the
\* last container the report "Completed!" with len(video_data).
ScrapeVideo(f) ==
    /\ f.kind = "job" /\ f.pc = "video"
    /\ Answered(f)
    /\ IF f.jq = <<>>
       THEN UpdateProgress(f, COMPLETED, Len(f.wq), [f EXCEPT !.pc = "save"])
       ELSE UpdateProgress(f, RUNNING, Processing(f), [f EXCEPT !.pc = "metrics"])

\* scrape_video_metrics returned: a record, appended and reported as
\* "Scraped video i+1", or None; then the next container.
ScrapeMetrics(f, ok) ==
    /\ f.kind = "job" /\ f.pc = "metrics"
    /\ Answered(f)
    /\ IF ok
       THEN UpdateProgress(f, RUNNING, Scraped(f),
                           [f EXCEPT !.pc = "video", !.n = @ + 1, !.jq = Tail(@),
                                     !.wq = Append(@, Head(f.jq))])
       ELSE Goes(f, [f EXCEPT !.pc = "video", !.n = @ + 1, !.jq = Tail(@)])

\* The except clause of scrape_profile: the report FAILED with 0 and 0.
ScrapeExcept(f) ==
    /\ f.kind = "job" /\ f.pc = "except"
    /\ UpdateProgress(f, FAILED, 0, [f EXCEPT !.pc = "save"])

\* process_job after scrape_profile returned: the results are saved and the
\* final report COMPLETED with len(video_data) is posted, or saving raises
\* (it always does for an empty video_data) and the report FAILED is
\* posted; then the worker is IDLE again.
ProcessJobEnds(f, ok) ==
    /\ f.kind = "job" /\ f.pc = "save"
    /\ Answered(f)
    /\ ok => f.wq # <<>>
    /\ Report(f.j, f.w, IF ok THEN COMPLETED ELSE FAILED, IF ok THEN Len(f.wq) ELSE 0,
              Finish(f))
    /\ UNCHANGED env

\* ------------------------------------------------------------ environment
\* HeartbeatTimeout seconds pass: every heartbeat is that much older.
TimePasses ==
    /\ \E w \in DOMAIN active_workers : active_workers[w].last_heartbeat < MaxAge
    /\ active_workers' =
         [w \in DOMAIN active_workers |->
            [active_workers[w] EXCEPT
               !.last_heartbeat = IF @ < MaxAge THEN @ + 1 ELSE @]]
    /\ UNCHANGED <<job_assignments, scrape_jobs, workers, events, tasks, env>>

\* send_heartbeat of worker.py: the worker's own status and job, BUSY with
\* the job it processes or IDLE with none.
SendHeartbeat(w, cj) == HeartbeatCall(w, IF cj = None THEN IDLE ELSE BUSY, cj)

\* A worker process dies: it sends nothing from now on.
WorkerStops(w) ==
    /\ w \in Senders
    /\ stopped' = stopped \cup {w}
    /\ UNCHANGED <<active_workers, job_assignments, scrape_jobs, workers,
                   events, tasks, next_worker_id, calls, clients>>

\* ------------------------------------------------------------------ Next
\* The requests the API receives, the awaited calls that return and the
\* loops that wake up, in any order.
Next ==
    \/ CreateJob
    \/ RegisterCall
    \/ \E w \in WorkerIds, st \in HeartbeatStatuses, cj \in {None} \cup JobIds :
          HeartbeatCall(w, st, cj)
    \/ \E w \in WorkerIds : UnregisterCall(w)
    \/ \E j \in JobIds, w \in WorkerIds, st \in ReportStatuses, n \in 0..MaxVideos :
          ProgressCall(j, w, st, n)
    \/ \E f \in Running : RegisterCommit(f)
    \/ \E f \in Running : HeartbeatCommit(f)
    \/ \E f \in Running : FailureCommit(f)
    \/ \E f \in Running : UnregisterCommit(f)
    \/ \E f \in Running : MonitorTick(f)
    \/ \E f \in Running : SchedulerTick(f)
    \/ \E f \in Running : AssignGet(f)
    \/ \E f \in Running : AssignCommit(f)
    \/ \E f \in Running : ProgressCommit(f)
    \/ TimePasses

Spec == Init /\ [][Next]_vars

\* Jobs are created, workers register, the loop assigns, and callers call
\* assign_job_to_worker at the same time.
NextAssign ==
    \/ CreateJob
    \/ RegisterCall
    \/ \E j \in JobIds, w \in WorkerIds : AssignCall(j, w)
    \/ \E f \in Running : RegisterCommit(f)
    \/ \E f \in Running : SchedulerTick(f)
    \/ \E f \in Running : AssignGet(f)
    \/ \E f \in Running : AssignCommit(f)

SpecAssign == Init /\ [][NextAssign]_vars

\* The happy path: one job is submitted, workers register, the loop assigns
\* the job, and the worker that got it reports RUNNING, then COMPLETED, each
\* request after the one before it has been answered.  Time passes, but no
\* heartbeat gets older than the timeout.
NextHappy ==
    \/ DOMAIN scrape_jobs = {} /\ CreateJob
    \/ RegisterCall
    \/ \E f \in Running : RegisterCommit(f)
    \/ \E f \in Running : SchedulerTick(f)
    \/ \E f \in Running : AssignGet(f)
    \/ \E f \in Running : AssignCommit(f)
    \/ \E j \in DOMAIN scrape_jobs, n \in 0..MaxVideos :
          /\ scrape_jobs[j].status = ASSIGNED
          /\ calls = 0 /\ InFlight = 0
          /\ ProgressCall(j, scrape_jobs[j].assigned_worker_id, RUNNING, n)
    \/ \E j \in DOMAIN scrape_jobs, n \in 0..MaxVideos :
          /\ scrape_jobs[j].status = RUNNING
          /\ n >= scrape_jobs[j].processed_videos
          /\ InFlight = 0
          /\ ProgressCall(j, scrape_jobs[j].assigned_worker_id, COMPLETED, n)
    \/ \E f \in Running : ProgressCommit(f)
    \/ TimePasses /\ StaleWorkers' = {}

SpecHappy == Init /\ [][NextHappy]_vars

\* Workers that heartbeat and die: jobs are created, workers register and
\* send the heartbeats of worker.py, the loop assigns, time passes, the
\* monitor reaps, and a worker process may stop for good.
NextDies ==
    \/ CreateJob
    \/ RegisterCall
    \/ \E w \in WorkerIds, cj \in {None} \cup JobIds : SendHeartbeat(w, cj)
    \/ \E w \in WorkerIds : WorkerStops(w)
    \/ \E f \in Running : RegisterCommit(f)
    \/ \E f \in Running : HeartbeatCommit(f)
    \/ \E f \in Running : FailureCommit(f)
    \/ \E f \in Running : UnregisterCommit(f)
    \/ \E f \in Running : MonitorTick(f)
    \/ \E f \in Running : SchedulerTick(f)
    \/ \E f \in Running : AssignGet(f)
    \/ \E f \in Running : AssignCommit(f)
    \/ TimePasses

\* Time passes, an awaited call of the Store returns, and a loop's sleep ends.
Fairness ==
    /\ WF_vars(TimePasses)
    /\ WF_vars(\E f \in Running : RegisterCommit(f))
    /\ WF_vars(\E f \in Running : HeartbeatCommit(f))
    /\ WF_vars(\E f \in Running : FailureCommit(f))
    /\ WF_vars(\E f \in Running : UnregisterCommit(f))
    /\ WF_vars(\E f \in Running : MonitorTick(f))
    /\ WF_vars(\E f \in Running : SchedulerTick(f))
    /\ WF_vars(\E f \in Running : AssignGet(f))
    /\ WF_vars(\E f \in Running : AssignCommit(f))

SpecDies == Init /\ [][NextDies]_vars /\ Fairness

\* Workers that wait for work: jobs are created, workers register and send
\* the heartbeat of a worker with no job in hand (check_for_job_assignment
\* hands it none), the loop assigns, time passes, the monitor reaps, and a
\* worker process may stop for good.
NextLoops ==
    \/ CreateJob
    \/ RegisterCall
    \/ \E w \in WorkerIds : SendHeartbeat(w, None)
    \/ \E w \in WorkerIds : WorkerStops(w)
    \/ \E f \in Running : RegisterCommit(f)
    \/ \E f \in Running : HeartbeatCommit(f)
    \/ \E f \in Running : FailureCommit(f)
    \/ \E f \in Running : UnregisterCommit(f)
    \/ \E f \in Running : MonitorTick(f)
    \/ \E f \in Running : SchedulerTick(f)
    \/ \E f \in Running : AssignGet(f)
    \/ \E f \in Running : AssignCommit(f)
    \/ TimePasses

\* Every awaited call of the Store returns and every sleep of a loop ends,
\* but no heartbeat is bound to get older than the timeout: a worker may go
\* on sending heartbeats in time.
LoopFairness ==
    /\ WF_vars(\E f \in Running : RegisterCommit(f))
    /\ WF_vars(\E f \in Running : HeartbeatCommit(f))
    /\ WF_vars(\E f \in Running : FailureCommit(f))
    /\ WF_vars(\E f \in Running : UnregisterCommit(f))
    /\ WF_vars(\E f \in Running : MonitorTick(f))
    /\ WF_vars(\E f \in Running : SchedulerTick(f))
    /\ WF_vars(\E f \in Running : AssignGet(f))
    /\ WF_vars(\E f \in Running : AssignCommit(f))

SpecLoops == Init /\ [][NextLoops]_vars /\ LoopFairness

\* Workers that process their jobs: jobs are created, workers register, the
\* loop assigns, each worker runs process_job on the job it was assigned and
\* posts the reports of scrape_profile, one after the other.
NextWorker ==
    \/ CreateJob
    \/ RegisterCall
    \/ \E f \in Running : RegisterCommit(f)
    \/ \E f \in Running : SchedulerTick(f)
    \/ \E f \in Running : AssignGet(f)
    \/ \E f \in Running : AssignCommit(f)
    \/ \E w \in WorkerIds, j \in JobIds : ProcessJob(w, j)
    \/ \E f \in Running : ScrapeInit(f)
    \/ \E f \in Running, ok \in BOOLEAN : ScrapeLoad(f, ok)
    \/ \E f \in Running : ScrapeScroll(f)
    \/ \E f \in Running, total \in 0..MaxFound : ScrapeFound(f, total)
    \/ \E f \in Running : ScrapeVideo(f)
    \/ \E f \in Running, ok \in BOOLEAN : ScrapeMetrics(f, ok)
    \/ \E f \in Running : ScrapeExcept(f)
    \/ \E f \in Running, ok \in BOOLEAN : ProcessJobEnds(f, ok)
    \/ \E f \in Running : ProgressCommit(f)

SpecWorker == Init /\ [][NextWorker]_vars

\* Workers that are removed: jobs are created, workers register, the loop
\* assigns, time passes, the monitor reaps and clients post unregister
\* requests, the only requests that are counted here.
NextReap ==
    \/ CreateJob
    \/ RegisterCall
    \/ \E w \in WorkerIds : UnregisterCall(w)
    \/ \E f \in Running : RegisterCommit(f)
    \/ \E f \in Running : FailureCommit(f)
    \/ \E f \in Running : UnregisterCommit(f)
    \/ \E f \in Running : MonitorTick(f)
    \/ \E f \in Running : SchedulerTick(f)
    \/ \E f \in Running : AssignGet(f)
    \/ \E f \in Running : AssignCommit(f)
    \/ TimePasses

SpecReap == Init /\ [][NextReap]_vars

\* A Store whose writes may fail: jobs are created, workers register and
\* then fall silent, the loop assigns, time passes and the monitor reaps,
\* and a db.commit() of assign_job_to_worker, of handle_worker_job_failure
\* or of unregister_worker either returns or raises.
NextFaulty ==
    \/ CreateJob
    \/ RegisterCall
    \/ \E f \in Running : RegisterCommit(f)
    \/ \E f \in Running : SchedulerTick(f)
    \/ \E f \in Running : AssignGet(f)
    \/ \E f \in Running : AssignCommit(f)
    \/ \E f \in Running : AssignCommitFails(f)
    \/ \E f \in Running : MonitorTick(f)
    \/ \E f \in Running : FailureCommit(f)
    \/ \E f \in Running : FailureCommitFails(f)
    \/ \E f \in Running : UnregisterCommit(f)
    \/ \E f \in Running : UnregisterCommitFails(f)
    \/ TimePasses

\* Time passes, a loop's sleep ends, and an awaited call of the Store ends,
\* by returning or by raising.
FaultyFairness ==
    /\ WF_vars(TimePasses)
    /\ WF_vars(\E f \in Running : RegisterCommit(f))
    /\ WF_vars(\E f \in Running : MonitorTick(f))
    /\ WF_vars(\E f \in Running : SchedulerTick(f))
    /\ WF_vars(\E f \in Running : AssignGet(f))
    /\ WF_vars(\E f \in Running : AssignCommit(f) \/ AssignCommitFails(f))
    /\ WF_vars(\E f \in Running : FailureCommit(f) \/ FailureCommitFails(f))
    /\ WF_vars(\E f \in Running : UnregisterCommit(f) \/ UnregisterCommitFails(f))

SpecFaulty == Init /\ [][NextFaulty]_vars /\ FaultyFairness

\* ============================================================ properties
\* Every handler has returned and both loops sleep.
Quiescent == tasks = SetToBag({MonitorSleeping, SchedulerSleeping})

TerminalStatuses == {COMPLETED, FAILED, CANCELLED}

\* The jobs worker w has reported COMPLETED: reports handled, and reports
\* whose handler awaits its commit.
ReportedCompleted(w) ==
    {e.job : e \in {x \in events : x.type = JOB_PROGRESS /\ x.worker = w
                                    /\ x.status = COMPLETED}}
    \cup {f.j : f \in {x \in Running : x.pc = "prog_commit" /\ x.w = w
                                        /\ x.st = COMPLETED}}

\* C1: of the calls of assign_job_to_worker for one job at most one
\* succeeds: at most one job_assigned event is published for a job.
NoDoubleAssignment ==
    \A j \in DOMAIN scrape_jobs :
        Cardinality({e \in events : e.type = JOB_ASSIGNED /\ e.job = j}) <= 1

\* C2: while the monitor's reap of worker W is in progress, the job J that
\* was assigned to W and that W held is never both reported failed
\* (job_failed published) and COMPLETED by a progress report of W.
ReapOrProgress ==
    \A f \in Running :
        (/\ f.kind = "monitor" /\ f.pc = "unreg_commit"
         /\ f.j \in DOMAIN scrape_jobs
         /\ scrape_jobs[f.j].assigned_worker_id = f.w)
        => ~ /\ Event(JOB_FAILED, f.j, None, FAILED, 0) \in events
             /\ f.j \in ReportedCompleted(f.w)
             /\ scrape_jobs[f.j].status = COMPLETED

\* C3: when every handler has returned, a job has an assigned_worker_id
\* if and only if its status is ASSIGNED or RUNNING.
JobInvariant ==
    Quiescent =>
        \A j \in DOMAIN scrape_jobs :
            (scrape_jobs[j].assigned_worker_id # None)
            <=> (scrape_jobs[j].status \in {ASSIGNED, RUNNING})

\* C4: when every handler has returned, a worker of the Registry has a
\* current_job_id if and only if its status is BUSY.
WorkerInvariant ==
    Quiescent =>
        \A w \in DOMAIN active_workers :
            (active_workers[w].current_job_id # None)
            <=> (active_workers[w].status = BUSY)

\* C5: when every handler has returned (no removal is in progress), no job
\* is ASSIGNED or RUNNING with an assigned worker that is absent from the
\* Registry.
WorkerLossFailsJob ==
    Quiescent =>
        \A j \in DOMAIN scrape_jobs :
            (scrape_jobs[j].status \in {ASSIGNED, RUNNING}
             /\ scrape_jobs[j].assigned_worker_id # None)
            => scrape_jobs[j].assigned_worker_id \in DOMAIN active_workers

\* C6: no step changes the status of a job whose status is COMPLETED,
\* FAILED or CANCELLED.
TerminalImmutable ==
    [][\A j \in DOMAIN scrape_jobs :
          scrape_jobs[j].status \in TerminalStatuses
          => scrape_jobs'[j].status = scrape_jobs[j].status]_vars

\* C7: when every handler has returned, a job has completed_at set if and
\* only if its status is COMPLETED, FAILED or CANCELLED.
CompletedAtInvariant ==
    Quiescent =>
        \A j \in DOMAIN scrape_jobs :
            scrape_jobs[j].completed_at
            <=> (scrape_jobs[j].status \in TerminalStatuses)

\* C8: a worker's total_jobs_completed counts jobs, not reports: it never
\* exceeds the number of distinct jobs the worker has reported COMPLETED.
ReplaySafe ==
    \A w \in DOMAIN active_workers :
        active_workers[w].total_jobs_completed <= Cardinality(ReportedCompleted(w))

\* What has happened to job j so far, read off the messages published.
AssignedTo(j, w) == Event(JOB_ASSIGNED, j, w, ASSIGNED, 0) \in events

ReportedRunning(j, w, n) == Event(JOB_PROGRESS, j, w, RUNNING, n) \in events

DiedMidJob(w, j) ==
    /\ w \in stopped
    /\ w \in DOMAIN active_workers
    /\ j \in DOMAIN scrape_jobs
    /\ scrape_jobs[j].status = ASSIGNED
    /\ scrape_jobs[j].assigned_worker_id = w
    /\ \A f \in Running : f.w # w

\* The monitor has reaped w and failed j.
Reaped(w, j) ==
    /\ w \notin DOMAIN active_workers
    /\ w \in DOMAIN workers /\ j \in DOMAIN scrape_jobs
    /\ workers[w].status = OFFLINE
    /\ scrape_jobs[j].status = FAILED
    /\ scrape_jobs[j].completed_at
    /\ scrape_jobs[j].error_message = "Worker disconnected: Heartbeat timeout"
    /\ Event(JOB_FAILED, j, None, FAILED, 0) \in events
    /\ Event(WORKER_DISCONNECTED, None, w, OFFLINE, 0) \in events

\* C10: when job J is ASSIGNED to W and W has stopped (it sends no further
\* heartbeat), the monitor eventually reaps W: J is FAILED with completed_at
\* and the disconnect message, W has left the Registry and is OFFLINE in
\* the Store, and worker_disconnected and job_failed have been published.
WorkerDiesMidJob ==
    \A w \in WorkerIds, j \in JobIds : DiedMidJob(w, j) ~> Reaped(w, j)

\* C11: a call of assign_job_to_worker(J, W) that returns True leaves J
\* ASSIGNED to W with started_at in the Store, W BUSY with current job J in
\* the Registry and in the Store, job_assignments[J] = W, and publishes its
\* job_assigned event.
AssignEffects ==
    [][\A f \in Running :
          AssignCommit(f)
          => /\ scrape_jobs'[f.j].status = ASSIGNED
             /\ scrape_jobs'[f.j].assigned_worker_id = f.w
             /\ scrape_jobs'[f.j].started_at
             /\ f.w \in DOMAIN active_workers'
             /\ active_workers'[f.w].status = BUSY
             /\ active_workers'[f.w].current_job_id = f.j
             /\ f.w \in DOMAIN workers'
             /\ workers'[f.w].status = BUSY
             /\ workers'[f.w].current_job_id = f.j
             /\ job_assignments'[f.j] = f.w
             /\ events' \ events = {Event(JOB_ASSIGNED, f.j, f.w, ASSIGNED, 0)}]_vars

\* C12: assign_job_to_worker on a job that does not exist or is not PENDING
\* changes neither the Store, the Registry nor job_assignments and
\* publishes nothing.
AssignRefusedNoOp ==
    [][\A f \in Running :
          (/\ AssignGet(f)
           /\ (f.j \notin DOMAIN scrape_jobs \/ scrape_jobs[f.j].status # PENDING))
          => UNCHANGED <<active_workers, job_assignments, scrape_jobs, workers,
                         events>>]_vars

\* A call of assign_job_to_worker is about to find its job ASSIGNED, and
\* another is about to find that its job does not exist.
AssignRefused ==
    /\ \E f \in Running :
          /\ f.kind = "assign" /\ f.pc = "asg_get"
          /\ f.j \in DOMAIN scrape_jobs /\ scrape_jobs[f.j].status = ASSIGNED
    /\ \E f \in Running :
          f.kind = "assign" /\ f.pc = "asg_get" /\ f.j \notin DOMAIN scrape_jobs

\* C13: assign_job_to_worker marks a worker BUSY with the job only if the
\* worker is IDLE in the Registry at that moment.
OnlyIdleAssigned ==
    [][\A f \in Running :
          (AssignGet(f) /\ active_workers' # active_workers)
          => active_workers[f.w].status = IDLE]_vars

\* C14: a heartbeat for a worker that was removed from the Registry is
\* answered differently from a heartbeat for a worker of the Registry.
UnknownHeartbeatNotFound ==
    \A w \in DOMAIN workers \ DOMAIN active_workers, v \in DOMAIN active_workers :
        HeartbeatAnswer(w) # HeartbeatAnswer(v)

\* C15: a progress report for a job that does not exist, which changes no
\* state, publishes no event.
SilentWhenUnknown ==
    [][\A j \in JobIds, w \in WorkerIds, st \in ReportStatuses, n \in 0..MaxVideos :
          (ProgressCall(j, w, st, n) /\ j \notin DOMAIN scrape_jobs)
          => events' = events]_vars

\* C16: when every handler has returned, a worker of the Registry has a
\* Store row with the same status, current_job_id and counters.
RegistryMatchesStore ==
    Quiescent =>
        \A w \in DOMAIN active_workers :
            /\ w \in DOMAIN workers
            /\ workers[w].status = active_workers[w].status
            /\ workers[w].current_job_id = active_workers[w].current_job_id
            /\ workers[w].total_jobs_completed = active_workers[w].total_jobs_completed
            /\ workers[w].total_videos_scraped = active_workers[w].total_videos_scraped

ReapIdempotent ==
    [][\A w \in WorkerIds :
          (UnregisterCall(w) /\ w \notin DOMAIN active_workers)
          => UNCHANGED <<active_workers, job_assignments, scrape_jobs, workers,
                         events, tasks>>]_vars

\* The only worker there ever was had a job and was removed, its job was
\* failed, and unregister_worker has been called for it a second time.
ReapedTwice ==
    /\ next_worker_id = 2 /\ calls = 2
    /\ Quiescent
    /\ 1 \notin DOMAIN active_workers
    /\ Event(WORKER_DISCONNECTED, None, 1, OFFLINE, 0) \in events
    /\ \E j \in DOMAIN scrape_jobs :
          /\ scrape_jobs[j].status = FAILED
          /\ scrape_jobs[j].assigned_worker_id = 1

\* C19: a progress report with status RUNNING changes no entry of the
\* Registry and no entry of job_assignments, neither when the handler
\* starts nor when its commit returns.
RunningKeepsOccupancy ==
    [][/\ \A j \in JobIds, w \in WorkerIds, n \in 0..MaxVideos :
             ProgressCall(j, w, RUNNING, n)
             => UNCHANGED <<active_workers, job_assignments>>
       /\ \A f \in Running :
             (ProgressCommit(f) /\ f.st = RUNNING)
             => UNCHANGED <<active_workers, job_assignments>>]_vars

\* A RUNNING report of a worker for its job was recorded and published, and
\* the worker is still BUSY with the job and in job_assignments.
StillBusyAfterReport ==
    \E j \in DOMAIN scrape_jobs, w \in DOMAIN active_workers :
        /\ scrape_jobs[j].status = RUNNING
        /\ \E n \in 0..MaxVideos : ReportedRunning(j, w, n)
        /\ active_workers[w].status = BUSY
        /\ active_workers[w].current_job_id = j
        /\ j \in DOMAIN job_assignments
        /\ job_assignments[j] = w

OthersStillReaped ==
    \A w \in WorkerIds :
        (/\ w \in StaleWorkers
         /\ active_workers[w].current_job_id = None)
        ~> (\/ w \notin DOMAIN active_workers
            \/ active_workers[w].current_job_id # None)

\* ------------------------------------------------------- the dashboards
\* A message a dashboard gets is a number: Snapshot for the "dashboard_data"
\* message websocket_endpoint sends, and k >= 1 for the k-th message handed
\* to broadcast_to_clients.
Snapshot == 0

\* The frame of websocket_endpoint for observer o, suspended in
\* get_system_stats (pc "stats") or in receive_text (pc "receive").  Its st
\* is "closed" once the client has gone away.
Endpoint(o, pc) == Frame("websocket", pc, o, None, "", 0, FALSE, <<>>, <<>>)

\* The socket of observer o takes messages: its endpoint has not returned
\* and its client is there.
Open(o) == \E f \in Running : f.kind = "websocket" /\ f.w = o /\ f.st # "closed"

\* The frame of broadcast_to_clients for message m, suspended in send_text
\* for observer o: size is len(websocket_connections) when the for loop
\* began, sent whether that send_text will return (it raises otherwise),
\* failed is disconnected_clients and todo the observers the loop has not
\* reached.  With pc "returned" or "raised" the frame is what is left of a
\* broadcast that is over: how it ended and the observers it did not reach.
Broadcast(pc, m, size, o, sent, failed, todo) ==
    Frame("broadcast", pc, size, o, "", m, sent, failed, todo)

\* send_text on the socket of observer o: the message reaches the dashboard
\* when the socket takes it.
Deliver(rc, o, m) ==
    IF Open(o) THEN [rc EXCEPT ![o] = Append(@, m)] ELSE rc

\* GET /ws: the socket is accepted and added to websocket_connections, then
\* the endpoint awaits get_system_stats.
Connect ==
    LET o == Cardinality(DOMAIN received) + 1
    IN /\ o <= MaxObservers
       /\ websocket_connections' = websocket_connections \cup {o}
       /\ received' = Put(received, o, <<>>)
       /\ tasks' = Start(Endpoint(o, "stats"))
       /\ UNCHANGED <<active_workers, job_assignments, scrape_jobs, workers,
                      events, next_worker_id, calls, stopped, submitted>>

\* get_system_stats returned: the endpoint sends the snapshot and waits for
\* the client's messages; when the client has gone the send raises and the
\* finally clause discards the socket.
SendSnapshot(f) ==
    /\ f.kind = "websocket"
    /\ f.pc = "stats"
    /\ received' = Deliver(received, f.w, Snapshot)
    /\ IF f.st = "closed"
       THEN /\ tasks' = Finish(f)
            /\ websocket_connections' = websocket_connections \ {f.w}
       ELSE /\ tasks' = Replace(f, Endpoint(f.w, "receive"))
            /\ UNCHANGED websocket_connections
    /\ UNCHANGED <<active_workers, job_assignments, scrape_jobs, workers,
                   events, next_worker_id, calls, stopped, submitted>>

\* The client of an endpoint goes away: from now on a send_text on its
\* socket raises.
Breaks(f) ==
    /\ f.kind = "websocket"
    /\ f.st # "closed"
    /\ tasks' = Replace(f, [f EXCEPT !.st = "closed"])
    /\ UNCHANGED <<active_workers, job_assignments, scrape_jobs, workers,
                   events, next_worker_id, calls, stopped, clients>>

\* receive_text raised WebSocketDisconnect: the finally clause discards the
\* socket.
Disconnect(f) ==
    /\ f.kind = "websocket"
    /\ f.pc = "receive"
    /\ f.st = "closed"
    /\ websocket_connections' = websocket_connections \ {f.w}
    /\ tasks' = Finish(f)
    /\ UNCHANGED <<active_workers, job_assignments, scrape_jobs, workers,
                   events, next_worker_id, calls, stopped, received, submitted>>

\* An operation calls broadcast_to_clients with its message: nothing happens
\* when no dashboard is connected; otherwise the loop calls send_text for the
\* first socket of the set and is suspended there.
Publish ==
    LET m == calls + 1
        todo == Ordered(websocket_connections)
    IN /\ calls < MaxCalls
       /\ calls' = m
       /\ IF todo = <<>>
          THEN UNCHANGED <<tasks, received>>
          ELSE /\ received' = Deliver(received, Head(todo), m)
               /\ tasks' = Start(Broadcast("send", m, Len(todo), Head(todo),
                                           Open(Head(todo)), <<>>, Tail(todo)))
       /\ UNCHANGED <<active_workers, job_assignments, scrape_jobs, workers,
                      events, next_worker_id, stopped, websocket_connections, submitted>>

\* A send_text of a broadcast returned or raised; a socket whose send raised
\* goes to disconnected_clients.  The for statement then asks the set
\* iterator for the next socket, and the iterator raises RuntimeError when
\* the set changed size since the loop began: the exception leaves
\* broadcast_to_clients.  Otherwise the loop sends to the next socket, or
\* is over and discards disconnected_clients.  Nothing in
\* broadcast_to_clients orders the returns of the sends of two broadcasts:
\* any suspended broadcast may be the one that goes on.
BroadcastNext(f) ==
    /\ f.kind = "broadcast"
    /\ f.pc = "send"
    /\ LET failed == IF f.found THEN f.jq ELSE Append(f.jq, f.j)
       IN IF Cardinality(websocket_connections) # f.w
          THEN /\ tasks' = Replace(f, [f EXCEPT !.pc = "raised", !.jq = failed])
               /\ UNCHANGED <<received, websocket_connections>>
          ELSE IF f.wq = <<>>
          THEN /\ tasks' = Replace(f, [f EXCEPT !.pc = "returned", !.jq = failed])
               /\ websocket_connections' =
                     websocket_connections \ {failed[i] : i \in DOMAIN failed}
               /\ UNCHANGED received
          ELSE /\ received' = Deliver(received, Head(f.wq), f.n)
               /\ tasks' = Replace(f, Broadcast("send", f.n, f.w, Head(f.wq),
                                                Open(Head(f.wq)), failed, Tail(f.wq)))
               /\ UNCHANGED websocket_connections
    /\ UNCHANGED <<active_workers, job_assignments, scrape_jobs, workers,
                   events, next_worker_id, calls, stopped, submitted>>

\* Dashboards connecting and leaving while operations publish.
NextBus ==
    \/ Connect
    \/ \E f \in Running : SendSnapshot(f)
    \/ \E f \in Running : Breaks(f)
    \/ \E f \in Running : Disconnect(f)
    \/ Publish
    \/ \E f \in Running : BroadcastNext(f)

SpecBus == Init /\ [][NextBus]_vars

\* ------------------------------------------------- dashboard properties
\* The live events observer o got, in the order it got them.
LiveEvents(o) == SelectSeq(received[o], LAMBDA m : m # Snapshot)

\* C22: the live events of every dashboard are in the order in which they
\* were handed to broadcast_to_clients.
InPublishedOrder ==
    \A o \in DOMAIN received :
        \A i, k \in 1..Len(LiveEvents(o)) :
            i < k => LiveEvents(o)[i] < LiveEvents(o)[k]

\* C31: a broadcast in which a send_text raised ends by returning to the
\* operation that published, has reached every socket of the set, and has
\* discarded the sockets whose send raised.
BestEffortPublish ==
    \A f \in Running :
        (f.kind = "broadcast" /\ f.pc \in {"returned", "raised"} /\ f.jq # <<>>)
        => /\ f.pc = "returned"
           /\ f.wq = <<>>
           /\ \A i \in DOMAIN f.jq : f.jq[i] \notin websocket_connections

\* C23: the first message a dashboard gets is the snapshot.
SnapshotFirst ==
    \A o \in DOMAIN received :
        received[o] # <<>> => Head(received[o]) = Snapshot

\* -------------------------------------------------------- job submission
\* A URL is a sequence of pieces: each piece stands for the text a pattern
\* of validate_tiktok_url matches as a unit.
SCHEME == "https://"        \* what https?:// matches
WWW == "www."
HOST == "tiktok.com/"
VM == "vm.tiktok.com/"
AT == "@"
SHORT == "t/"
VIDEO == "/video/"
LETTER == "a"               \* matches \w, not \d
DIGIT == "9"                \* matches \w and \d
DASH == "-"                 \* one of . and -: matches [\w.-], not \w
BLANK == " "                \* white space

Pieces == {SCHEME, WWW, HOST, VM, AT, SHORT, VIDEO, LETTER, DIGIT, DASH, BLANK}

Urls == UNION {[1..n -> Pieces] : n \in 0..MaxLen}

\* An element of a pattern: the pieces it matches and its quantifier.
One(S) == [set |-> S, q |-> "1"]
Opt(S) == [set |-> S, q |-> "?"]
Plus(S) == [set |-> S, q |-> "+"]

Word == {LETTER, DIGIT}

patterns ==
    << <<One({SCHEME}), Opt({WWW}), One({HOST}), One({AT}),
         Plus(Word \cup {DASH}), One({VIDEO}), Plus({DIGIT})>>,
       <<One({SCHEME}), Opt({WWW}), One({HOST}), One({SHORT}), Plus(Word)>>,
       <<One({SCHEME}), One({VM}), Plus(Word)>>,
       <<One({SCHEME}), Opt({WWW}), One({HOST}), One({AT}),
         Plus(Word \cup {DASH})>> >>

\* re.match(pattern, s): the pattern matches at the start of s; what
\* follows the match is not looked at.
RECURSIVE Match(_, _)
Match(p, s) ==
    IF p = <<>> THEN TRUE
    ELSE LET e == Head(p)
             here == s # <<>> /\ Head(s) \in e.set
         IN CASE e.q = "1" -> here /\ Match(Tail(p), Tail(s))
              [] e.q = "?" -> (here /\ Match(Tail(p), Tail(s))) \/ Match(Tail(p), s)
              [] e.q = "+" -> here /\ (Match(p, Tail(s)) \/ Match(Tail(p), Tail(s)))

\* str.strip(): the white space at both ends is dropped.
RECURSIVE Strip(_)
Strip(s) ==
    IF s = <<>> THEN s
    ELSE IF Head(s) = BLANK THEN Strip(Tail(s))
    ELSE IF s[Len(s)] = BLANK THEN Strip(SubSeq(s, 1, Len(s) - 1))
    ELSE s

ValidateUnstripped(url) == \E i \in DOMAIN patterns : Match(patterns[i], url)

validate_tiktok_url(url) == \E i \in DOMAIN patterns : Match(patterns[i], Strip(url))

\* POST /api/jobs with any URL: HTTPException(400) before the row is made
\* when the URL does not validate, the job otherwise.
SubmitJob(url) ==
    /\ submitted = NoRequest
    /\ IF validate_tiktok_url(url)
       THEN /\ AddJob
            /\ submitted' = [url |-> url, answer |-> "JobResponse"]
       ELSE /\ submitted' = [url |-> url, answer |-> "Invalid TikTok URL"]
            /\ UNCHANGED <<scrape_jobs, events>>
    /\ UNCHANGED <<active_workers, job_assignments, workers, tasks,
                   next_worker_id, calls, stopped, websocket_connections, received>>

\* A submission of any URL among the submissions of good ones.
NextSubmit ==
    \/ CreateJob
    \/ submitted = NoRequest /\ \E url \in Urls : SubmitJob(url)

SpecSubmit == Init /\ [][NextSubmit]_vars

\* C24: a submission whose URL, white space at its ends apart, does not
\* begin with a TikTok profile, short-link or vm address is answered with the
\* client error and adds no job and publishes no event; any other submission
\* adds exactly one job, PENDING, with no worker and zero counters, leaves
\* the other jobs as they are and publishes its job_created event.
WellFormed(url) ==
    \E i, k \in 1..(Len(url) + 1) :
        /\ \A x \in 1..(i - 1) : url[x] = BLANK
        /\ i <= Len(url) /\ url[i] = SCHEME
        /\ k \in {i + 1, i + 2}
        /\ k = i + 2 => url[i + 1] = WWW
        /\ k + 1 <= Len(url)
        /\ \/ url[k] = HOST /\ k + 2 <= Len(url) /\ url[k + 1] = AT
              /\ url[k + 2] \in {LETTER, DIGIT, DASH}
           \/ url[k] = HOST /\ k + 2 <= Len(url) /\ url[k + 1] = SHORT
              /\ url[k + 2] \in {LETTER, DIGIT}
           \/ k = i + 1 /\ url[k] = VM /\ url[k + 1] \in {LETTER, DIGIT}

RegisterContract ==
    [][/\ next_worker_id' # next_worker_id =>
            LET w == next_worker_id
            IN /\ w \notin DOMAIN active_workers \cup DOMAIN workers
               /\ \A e \in events : e.worker # w
               /\ \A f \in Running : f.w # w
               /\ DOMAIN active_workers' = DOMAIN active_workers \cup {w}
               /\ active_workers'[w].status = IDLE
               /\ active_workers'[w].current_job_id = None
               /\ active_workers'[w].total_jobs_completed = 0
               /\ active_workers'[w].total_videos_scraped = 0
               /\ \A v \in DOMAIN active_workers : active_workers'[v] = active_workers[v]
               /\ workers' = workers
               /\ scrape_jobs' = scrape_jobs
               /\ job_assignments' = job_assignments
       /\ DOMAIN workers' # DOMAIN workers =>
            \E w \in (DOMAIN workers') \ DOMAIN workers :
               /\ DOMAIN workers' = DOMAIN workers \cup {w}
               /\ workers'[w].status = IDLE
               /\ workers'[w].current_job_id = None
               /\ workers'[w].total_jobs_completed = 0
               /\ workers'[w].total_videos_scraped = 0
               /\ \A v \in DOMAIN workers : workers'[v] = workers[v]
               /\ active_workers' = active_workers
               /\ scrape_jobs' = scrape_jobs
               /\ job_assignments' = job_assignments]_vars

\* A second worker's registration awaits its commit while the first worker
\* is BUSY with a job.
RegisteredBesideBusy ==
    /\ \E f \in Running : f.kind = "register" /\ f.w = 2
    /\ 2 \in DOMAIN active_workers
    /\ active_workers[2].status = IDLE
    /\ 1 \in DOMAIN active_workers \cap DOMAIN workers
    /\ active_workers[1].status = BUSY
    /\ active_workers[1].current_job_id \in DOMAIN scrape_jobs

\* C26: in every state, worker w is BUSY with current_job_id j in the
\* Registry exactly when job_assignments maps j to w.
OccupancyMatchesMap ==
    \A w \in WorkerIds, j \in JobIds :
        (/\ w \in DOMAIN active_workers
         /\ active_workers[w].status = BUSY
         /\ active_workers[w].current_job_id = j)
        <=> (j \in DOMAIN job_assignments /\ job_assignments[j] = w)

\* C27: a step that changes the status of a job takes one of the edges
\* PENDING -> ASSIGNED, ASSIGNED -> RUNNING, RUNNING -> COMPLETED or FAILED,
\* ASSIGNED -> FAILED, and PENDING, ASSIGNED or RUNNING -> CANCELLED.
LifecycleEdges ==
    {<<PENDING, ASSIGNED>>, <<ASSIGNED, RUNNING>>, <<RUNNING, COMPLETED>>,
     <<RUNNING, FAILED>>, <<ASSIGNED, FAILED>>, <<PENDING, CANCELLED>>,
     <<ASSIGNED, CANCELLED>>, <<RUNNING, CANCELLED>>}

OnlyLifecycleEdges ==
    [][\A j \in DOMAIN scrape_jobs :
          scrape_jobs'[j].status # scrape_jobs[j].status
          => <<scrape_jobs[j].status, scrape_jobs'[j].status>> \in LifecycleEdges]_vars

\* Workers that heartbeat or fall silent, with or without a job, and the
\* monitor as the only one that removes them.
NextStale ==
    \/ CreateJob
    \/ RegisterCall
    \/ \E w \in WorkerIds : SendHeartbeat(w, None)
    \/ \E f \in Running : RegisterCommit(f)
    \/ \E f \in Running : HeartbeatCommit(f)
    \/ \E f \in Running : FailureCommit(f)
    \/ \E f \in Running : UnregisterCommit(f)
    \/ \E f \in Running : MonitorTick(f)
    \/ \E f \in Running : SchedulerTick(f)
    \/ \E f \in Running : AssignGet(f)
    \/ \E f \in Running : AssignCommit(f)
    \/ TimePasses

SpecStale == Init /\ [][NextStale]_vars

\* C28: the workers a monitor tick sets out to remove are exactly those
\* whose last heartbeat is more than 60 seconds old when the tick starts;
\* the monitor removes no other worker while it walks that list, and when it
\* sleeps again every worker of the list has left the Registry.
Monitor == CHOOSE f \in Running : f.kind = "monitor"

Overdue ==
    {w \in DOMAIN active_workers :
        active_workers[w].last_heartbeat * HeartbeatTimeout > 60}

StaleThreshold ==
    [][LET gone == DOMAIN active_workers \ DOMAIN active_workers'
           f == Monitor
           g == Monitor'
           Todo(x) == {x.wq[i] : i \in DOMAIN x.wq}
       IN /\ (f.pc = "sleep" /\ (gone # {} \/ g.pc # "sleep"))
             => gone \cup Todo(g) = Overdue
          /\ f.pc # "sleep"
             => /\ gone \subseteq Todo(f)
                /\ Todo(g) \subseteq Todo(f)
                /\ g.pc = "sleep" => Todo(f) \cap DOMAIN active_workers' = {}]_vars

\* The monitor has popped a worker and awaits the commit of its OFFLINE
\* status, while another worker, whose heartbeat is exactly 60 seconds old,
\* is in the Registry and not on the monitor's list.
SparedAtThreshold ==
    /\ Monitor.pc = "unreg_commit"
    /\ Monitor.w \notin DOMAIN active_workers
    /\ \E w \in DOMAIN active_workers :
          /\ active_workers[w].last_heartbeat * HeartbeatTimeout = 60
          /\ \A i \in DOMAIN Monitor.wq : Monitor.wq[i] # w

\* C29: the Store row of a worker that has left the Registry and is OFFLINE
\* stays OFFLINE at every step.
OfflineKept ==
    [][\A w \in DOMAIN workers :
          (w \notin DOMAIN active_workers /\ workers[w].status = OFFLINE)
          => workers'[w].status = OFFLINE]_vars

OneActiveJobPerWorker ==
    \A w \in WorkerIds :
        Cardinality({j \in DOMAIN scrape_jobs :
                        /\ scrape_jobs[j].status \in {ASSIGNED, RUNNING}
                        /\ scrape_jobs[j].assigned_worker_id = w}) <= 1

\* C33: a COMPLETED or FAILED report for job j that names a worker other
\* than the assigned worker of j, or a worker whose current job is not j,
\* leaves the Registry entry of the worker it names as it is.
ReportFreesOnlyAssigned ==
    [][\A j \in JobIds, w \in WorkerIds, st \in {COMPLETED, FAILED}, n \in 0..MaxVideos :
          (/\ ProgressCall(j, w, st, n)
           /\ j \in DOMAIN scrape_jobs
           /\ w \in DOMAIN active_workers
           /\ \/ scrape_jobs[j].assigned_worker_id # w
              \/ active_workers[w].current_job_id # j)
          => active_workers'[w] = active_workers[w]]_vars

\* C34: the completed-job counter of a worker never exceeds the number of
\* jobs assigned to it: each job it processes raises the counter once.
CountedOncePerJob ==
    \A w \in DOMAIN active_workers :
        active_workers[w].total_jobs_completed
        <= Cardinality({j \in DOMAIN scrape_jobs : scrape_jobs[j].assigned_worker_id = w})

\* ------------------------------------------- the worker loop and the monitor
\* worker_loop sends a heartbeat when heartbeat_interval has passed, between
\* two jobs: while it awaits process_job it sends none.
WorkerLoopHeartbeat(w) ==
    /\ ~\E g \in Running : g.kind = "job" /\ g.w = w
    /\ SendHeartbeat(w, None)

\* A worker process that takes the jobs assigned to it, while time passes
\* and the monitor looks for stale workers.
NextBusy ==
    \/ DOMAIN scrape_jobs = {} /\ CreateJob
    \/ next_worker_id = 1 /\ RegisterCall
    \/ \E f \in Running : RegisterCommit(f)
    \/ \E f \in Running : SchedulerTick(f)
    \/ \E f \in Running : AssignGet(f)
    \/ \E f \in Running : AssignCommit(f)
    \/ \E w \in WorkerIds : WorkerLoopHeartbeat(w)
    \/ \E f \in Running : HeartbeatCommit(f)
    \/ \E w \in WorkerIds, j \in JobIds : ProcessJob(w, j)
    \/ \E f \in Running : ScrapeInit(f)
    \/ \E f \in Running : ScrapeLoad(f, TRUE)
    \/ \E f \in Running : ScrapeScroll(f)
    \/ \E f \in Running, total \in 1..MaxFound : ScrapeFound(f, total)
    \/ \E f \in Running : ScrapeVideo(f)
    \/ \E f \in Running : ScrapeMetrics(f, TRUE)
    \/ \E f \in Running : ProcessJobEnds(f, TRUE)
    \/ \E f \in Running : ProgressCommit(f)
    \/ \E f \in Running : MonitorTick(f)
    \/ \E f \in Running : FailureCommit(f)
    \/ \E f \in Running : UnregisterCommit(f)
    \/ TimePasses

SpecBusy == Init /\ [][NextBusy]_vars

\* C35: a worker process that is processing a job is in the Registry: the
\* monitor does not remove it while the job lasts.
WorkingNotReaped ==
    \A f \in Running : f.kind = "job" => f.w \in DOMAIN active_workers

\* The calls of unregister_worker(w) that are suspended past the membership
\* test: each of them fails the worker's job again if it holds one, writes
\* OFFLINE and publishes WORKER_DISCONNECTED when it resumes.
Removals(w) ==
    {f \in Running : f.pc \in {"fail_commit", "unreg_commit"} /\ f.w = w}

\* C36: a worker is removed by one call of unregister_worker at a time:
\* the monitor's reap and an unregister request of the same worker are
\* never both past the membership test, so its job is failed once and one
\* WORKER_DISCONNECTED is published.
SingleRemoval ==
    \A w \in WorkerIds : Cardinality(Removals(w)) <= 1

\* The workers that the Registry shows BUSY with a job that is PENDING.
Wedged ==
    {w \in DOMAIN active_workers :
        /\ active_workers[w].status = BUSY
        /\ active_workers[w].current_job_id \in DOMAIN scrape_jobs
        /\ scrape_jobs[active_workers[w].current_job_id].status = PENDING}

\* C37: once a call of assign_job_to_worker is over and the scheduler
\* sleeps until its next tick, no Registry entry is BUSY with a job that
\* is still PENDING.
NoWedgedWorker ==
    SchedulerSleeping \in Running => Wedged = {}

====
